---------------------------- MODULE Spec2Model ----------------------------
(***************************************************************************)
(* fileOrganizer (src/fileOrganizer.cxx): a ThreadPool of worker threads   *)
(* fed by FileOrganizer::organizeAlphabetically / organizeByKeyword /      *)
(* organizeByContent, each started from an FLTK callback that owns the     *)
(* pool for the duration of one run.                                       *)
(*                                                                         *)
(* Characters are their ASCII codes, strings are sequences of codes.       *)
(* Everything a thread does while it holds queueMutex is one step.         *)
(***************************************************************************)
EXTENDS Integers, Sequences, FiniteSets, TLC

\* ------------------------------------------------------------------ bounds
\* Most regular files in the source directory at the start of a run.
MaxFiles == 2
\* The alphabetical loop runs over 'A' .. 'A' + NumLetters - 1 (the program: 'A'..'Z').
NumLetters == 2
\* PoolSpec: most enqueue calls of the submitter, most workers of the pool.
MaxJobs == 3
MaxWorkers == 2

\* ------------------------------------------------------- program constants
MAX_THREADS == 4

\* --------------------------------------------------------------- the inputs
\* The candidate regular files of the source directory: filename, content as
\* text followed by pad further bytes that occur in no keyword.
\*   1: "a.txt" holding "ab"     2: "Ab" holding "b" + 3 bytes
\*   3: "1b"    holding ""       4: "b"  holding "ba"
\*   5: "b.png" holding 2000 bytes
FilePool ==
  << [name |-> <<97, 46, 116, 120, 116>>, text |-> <<97, 98>>, pad |-> 0],
     [name |-> <<65, 98>>,                text |-> <<98>>,     pad |-> 3],
     [name |-> <<49, 98>>,                text |-> <<>>,       pad |-> 0],
     [name |-> <<98>>,                    text |-> <<98, 97>>, pad |-> 0],
     [name |-> <<98, 46, 112, 110, 103>>, text |-> <<>>,       pad |-> 2000] >>

FileIds == 1 .. Len(FilePool)

\* What the directory field can hold: "" , "/d" (a directory), "/x" (nothing
\* there), "/f" (a regular file, which directory_iterator refuses).
DirInputs ==
  { [path |-> <<>>,        kind |-> "missing"],
    [path |-> <<47, 100>>, kind |-> "dir"],
    [path |-> <<47, 120>>, kind |-> "missing"],
    [path |-> <<47, 102>>, kind |-> "file"] }

\* What the keyword field can hold: "", "b", "a,b", "b,a", ",".
KeywordInputs ==
  { <<>>, <<98>>, <<97, 44, 98>>, <<98, 44, 97>>, <<44>> }

\* Subfolders that may already exist under the directory: none, or "a".
DirsInputs == { {}, {<<97>>} }

VARIABLES
  \* ThreadPool (lines 89-94)
  tasks,     \* std::queue of closures: a sequence of job ids
  stop,      \* bool stop
  wpc,       \* workers: each thread's position, "ready" | "waiting" | "run" | "exited"
  wtask,     \* the closure each worker holds in its local `task` (0: none)
  \* the callback and FileOrganizer::organize* running in it
  pc,        \* position of the GUI thread
  mode,      \* "alpha" | "keyword" | "content": which button was used
  dir,       \* the directory field
  kwInput,   \* the keyword field
  files,     \* vector<fs::path> files, after the sort
  keywords,  \* vector<string> keywords (content mode) / <<keyword>> (keyword mode)
  letter,    \* char letter of the alphabetical loop
  fi,        \* index of the range-for over files
  ki,        \* index of the range-for over keywords
  pend,      \* the closure enqueue was called with
  join,      \* index of the destructor's join loop
  \* the filesystem under the directory
  top,       \* regular files directly under the directory
  dirs,      \* subfolders of the directory
  moved,     \* <<file, folder>>: the file was renamed into the folder
  \* what was shown and done (history)
  status,    \* messages the GUI thread showed, in order
  enq,       \* every closure enqueue accepted, in order; a job id is its index;
             \* file 0 is a closure that moves no file
  runs,      \* per job id: how many times a worker started it
  fin,       \* per job id: how many times it ran to its end
  reports,   \* per job id: how many messages its execution showed
  ensured,   \* folders for which createDirectory returned true in this run
  failed,    \* folders for which createDirectory returned false in this run
  created,   \* folders createDirectory made in this run
  \* PoolSpec's submitter thread
  sub        \* "off" | "ready" | "notify"

poolVars == <<tasks, stop, wpc, wtask>>
driverVars == <<pc, mode, dir, kwInput, files, keywords, letter, fi, ki, pend, join>>
loopVars == <<letter, fi, ki, pend>>
inputVars == <<mode, dir, kwInput>>
fsVars == <<top, dirs, moved>>
dirHist == <<ensured, failed, created>>
histVars == <<status, enq, runs, fin, reports, ensured, failed, created>>
vars == <<tasks, stop, wpc, wtask, pc, mode, dir, kwInput, files, keywords,
          letter, fi, ki, pend, join, top, dirs, moved, status, enq, runs,
          fin, reports, ensured, failed, created, sub>>

Workers == DOMAIN wpc

\* ------------------------------------------------------------- ThreadPool

\* condition.wait's predicate (line 58)
WaitPredicate == stop \/ tasks # <<>>

\* Faulty variant of WorkerReturns: the worker leaves as soon as stop is set.
WorkerReturnsOnStop == stop

\* the worker's return test (line 59)
WorkerReturns == stop /\ tasks = <<>>

\* Faulty variant of PopFront: the front closure is taken but not popped.
PopFrontKept(q) == q

\* tasks.pop() (line 61)
PopFront(q) == Tail(q)

\* Faulty variant of NotifyOne: enqueue wakes nobody.
NotifyOneMissing == wpc' = wpc

\* notify_one: at most one thread blocked in wait is released; which one is
\* the scheduler's choice.
NotifyOne ==
  IF \E w \in Workers : wpc[w] = "waiting"
  THEN \E w \in Workers :
         /\ wpc[w] = "waiting"
         /\ wpc' = [wpc EXCEPT ![w] = "ready"]
  ELSE wpc' = wpc

\* Faulty variant of NotifyAll: the destructor wakes nobody.
NotifyNobody == wpc' = wpc

\* notify_all: every thread blocked in wait is released.
NotifyAll ==
  wpc' = [w \in Workers |-> IF wpc[w] = "waiting" THEN "ready" ELSE wpc[w]]

\* ThreadPool::ThreadPool(numThreads): numThreads threads, each at the top of
\* its loop; stop = false, the queue empty.
Construct(n) ==
  /\ stop' = FALSE
  /\ tasks' = <<>>
  /\ wpc' = [w \in 1 .. n |-> "ready"]
  /\ wtask' = [w \in 1 .. n |-> 0]

\* Worker, lines 57-58: the predicate is false, the thread blocks in wait.
WorkerBlock(w) ==
  /\ wpc[w] = "ready"
  /\ ~WaitPredicate
  /\ wpc' = [wpc EXCEPT ![w] = "waiting"]
  /\ UNCHANGED <<tasks, stop, wtask, driverVars, fsVars, histVars, sub>>

\* A spurious wakeup of condition_variable::wait: the predicate is tested again.
WorkerSpurious(w) ==
  /\ wpc[w] = "waiting"
  /\ wpc' = [wpc EXCEPT ![w] = "ready"]
  /\ UNCHANGED <<tasks, stop, wtask, driverVars, fsVars, histVars, sub>>

\* Worker, line 59: stop and nothing queued, the thread returns.
WorkerExit(w) ==
  /\ wpc[w] = "ready"
  /\ WaitPredicate
  /\ WorkerReturns
  /\ wpc' = [wpc EXCEPT ![w] = "exited"]
  /\ UNCHANGED <<tasks, stop, wtask, driverVars, fsVars, histVars, sub>>

\* Worker, lines 60-61: take the front closure and pop it.
WorkerTake(w) ==
  /\ wpc[w] = "ready"
  /\ WaitPredicate
  /\ ~WorkerReturns
  /\ tasks # <<>>
  /\ wtask' = [wtask EXCEPT ![w] = Head(tasks)]
  /\ tasks' = PopFront(tasks)
  /\ runs' = [runs EXCEPT ![Head(tasks)] = @ + 1]
  /\ wpc' = [wpc EXCEPT ![w] = "run"]
  /\ UNCHANGED <<stop, driverVars, fsVars, status, enq, fin, reports, dirHist, sub>>

\* ------------------------------------------------------ strings and paths

\* Faulty variant of toupper: the character is compared as it is.
toupperNone(c) == c

\* toupper, "C" locale (line 163)
toupper(c) == IF c \in 97 .. 122 THEN c - 32 ELSE c

\* string::find(needle) != string::npos (lines 212, 257)
Find(hay, needle) ==
  \E i \in 0 .. (Len(hay) - Len(needle)) :
    SubSeq(hay, i + 1, i + Len(needle)) = needle

\* The places of character c in s.
Places(s, c) == { i \in 1 .. Len(s) : s[i] = c }

Max(S) == CHOOSE x \in S : \A y \in S : y <= x
Min(S) == CHOOSE x \in S : \A y \in S : x <= y

\* fs::path::extension (line 32): from the rightmost period, unless that
\* period starts the filename or the filename is "." or "..".
Extension(name) ==
  IF Places(name, 46) = {} \/ name = <<46>> \/ name = <<46, 46>>
  THEN <<>>
  ELSE IF Max(Places(name, 46)) = 1
       THEN <<>>
       ELSE SubSeq(name, Max(Places(name, 46)), Len(name))

\* The while (getline(ss, keyword, ',')) loop (lines 332-337): a piece per
\* comma, and a last piece only when characters follow the last comma.
RECURSIVE Split(_)
Split(s) ==
  IF s = <<>>
  THEN <<>>
  ELSE IF Places(s, 44) = {}
       THEN <<s>>
       ELSE <<SubSeq(s, 1, Min(Places(s, 44)) - 1)>>
            \o Split(SubSeq(s, Min(Places(s, 44)) + 1, Len(s)))

\* The value an int takes from an unsigned sum (line 35): two's complement,
\* so a sum above INT_MAX = 2147483647 comes out 2^32 lower.
ToInt(x) ==
  IF x > 2147483647
  THEN ((x - 2147483647) - 2147483647) - 2
  ELSE x

\* ---------------------------------------------------------- the filesystem

\* fs::file_size
FileSize(f) == Len(FilePool[f].text) + FilePool[f].pad

\* file.string().length() of dir / filename
PathLength(f) == Len(dir.path) + 1 + Len(FilePool[f].name)

\* The extensions evaluate favours: ".txt", ".jpg", ".png" (line 38)
CheapExtensions ==
  { <<46, 116, 120, 116>>, <<46, 106, 112, 103>>, <<46, 112, 110, 103>> }

\* Faulty variant of HasCheapExtension: no extension is favoured.
HasCheapExtensionNever(f) == FALSE

\* line 38
HasCheapExtension(f) == Extension(FilePool[f].name) \in CheapExtensions

\* FileHeuristic::evaluate for a regular file (lines 30-42)
Score(f) ==
  IF HasCheapExtension(f)
  THEN ToInt(FileSize(f) + PathLength(f)) - 1000
  ELSE ToInt(FileSize(f) + PathLength(f))

\* FileHeuristic::evaluate (lines 28-45)
evaluate(f) == IF f \in top THEN Score(f) ELSE 0

\* The orders std::sort may leave the scanned files in (lines 150-152): any
\* arrangement in which no file is followed by one of a smaller score.
SortedOrders(S) ==
  { p \in [1 .. Cardinality(S) -> S] :
      /\ \A i, j \in DOMAIN p : i # j => p[i] # p[j]
      /\ \A i, j \in DOMAIN p : i < j => ~(evaluate(p[j]) < evaluate(p[i])) }

\* fs::exists(dir / folder): a subfolder, a regular file of that name, or the
\* directory itself when the folder name is empty.
Exists(folder) ==
  \/ folder = <<>>
  \/ folder \in dirs
  \/ \E f \in top : FilePool[f].name = folder

\* FileOrganizer::getFileContent (lines 280-285): a file that cannot be
\* opened reads as empty.
getFileContent(f) == IF f \in top THEN FilePool[f].text ELSE <<>>

\* fs::rename(dir / name, dir / folder / name) can succeed: the source is
\* there and the target's parent is a directory.
RenamePossible(f, folder) ==
  f \in top /\ (folder = <<>> \/ folder \in dirs)

\* The messages a failed move shows: moveFile's own (line 124) and then the
\* closure's (lines 167, 215, 265).
FailureReports == << "moveFile: Error moving file", "task: Error moving file" >>

\* Faulty variant of AfterTask: a failed move takes its worker thread down.
AfterTaskFailureEscapes(ok) == IF ok THEN "ready" ELSE "exited"

\* Lines 63-64 with moveFile's catch (lines 123-126): whatever the move's
\* outcome, task() returns and the worker is back at the top of its loop.
AfterTask(ok) == "ready"

\* Faulty variant of WorkerRun: the closure is handed to a detached thread
\* and the worker goes back to its loop while the closure runs.
WorkerRunDetached(w) ==
  /\ wpc[w] = "run"
  /\ wtask' = [wtask EXCEPT ![w] = 0]
  /\ wpc' = [wpc EXCEPT ![w] = "ready"]
  /\ UNCHANGED <<tasks, stop, driverVars, fsVars, histVars, sub>>

\* The closure of lines 165-169 / 213-217 / 263-267, run by worker w: the
\* rename succeeds when it can, or throws (always when it cannot, and for any
\* cause outside the directory's content: permissions, the device); moveFile
\* then shows its message and returns false, and the closure shows its own.
\* Renaming a file onto itself (an empty folder name) changes nothing.
WorkerRun(w) ==
  /\ wpc[w] = "run"
  /\ LET j == wtask[w]
         f == enq[j].file
         d == enq[j].dest
     IN /\ \/ /\ f = 0
              /\ UNCHANGED <<fsVars, reports>>
              /\ wpc' = [wpc EXCEPT ![w] = AfterTask(TRUE)]
           \/ /\ f # 0
              /\ RenamePossible(f, d)
              /\ IF d = <<>>
                 THEN UNCHANGED fsVars
                 ELSE /\ top' = top \ {f}
                      /\ moved' = moved \cup {<<f, d>>}
                      /\ dirs' = dirs
              /\ UNCHANGED reports
              /\ wpc' = [wpc EXCEPT ![w] = AfterTask(TRUE)]
           \/ /\ f # 0
              /\ UNCHANGED fsVars
              /\ reports' = [reports EXCEPT ![j] = @ \o FailureReports]
              /\ wpc' = [wpc EXCEPT ![w] = AfterTask(FALSE)]
        /\ fin' = [fin EXCEPT ![j] = @ + 1]
  /\ wtask' = [wtask EXCEPT ![w] = 0]
  /\ UNCHANGED <<tasks, stop, driverVars, status, enq, runs, dirHist, sub>>

\* ThreadPool::enqueue, lines 82-85: the closure goes to the back of the queue.
EnqueuePush(job) ==
  /\ tasks' = Append(tasks, Len(enq) + 1)
  /\ enq' = Append(enq, [file |-> job.file, dest |-> job.dest, late |-> stop])
  /\ runs' = Append(runs, 0)
  /\ fin' = Append(fin, 0)
  /\ reports' = Append(reports, <<>>)

\* ThreadPool::~ThreadPool, lines 70-73
DtorStop ==
  /\ pc = "dtorStop"
  /\ stop' = TRUE
  /\ pc' = "dtorNotify"
  /\ UNCHANGED <<tasks, wpc, wtask, inputVars, files, keywords, loopVars, join,
                 fsVars, histVars, sub>>

\* line 74
DtorNotify ==
  /\ pc = "dtorNotify"
  /\ NotifyAll
  /\ pc' = "dtorJoin"
  /\ join' = 1
  /\ UNCHANGED <<tasks, stop, wtask, inputVars, files, keywords, loopVars,
                 fsVars, histVars, sub>>

\* lines 75-77: join the workers in order; after the last one the destructor
\* returns and the callback with it.
DtorJoin ==
  /\ pc = "dtorJoin"
  /\ IF join > Len(wpc)
     THEN /\ pc' = "returned"
          /\ join' = join
     ELSE /\ wpc[join] = "exited"
          /\ join' = join + 1
          /\ pc' = pc
  /\ UNCHANGED <<poolVars, inputVars, files, keywords, loopVars, fsVars,
                 histVars, sub>>

\* ------------------------------------------- a client of ThreadPool (PoolSpec)

\* A thread calls enqueue on the pool object, lines 82-85.
SubmitPush ==
  /\ sub = "ready"
  /\ pc # "returned"
  /\ Len(enq) < MaxJobs
  /\ EnqueuePush([file |-> 0, dest |-> <<>>])
  /\ sub' = "notify"
  /\ UNCHANGED <<stop, wpc, wtask, driverVars, fsVars, status, dirHist>>

\* line 86
SubmitNotify ==
  /\ sub = "notify"
  /\ NotifyOne
  /\ sub' = "ready"
  /\ UNCHANGED <<tasks, stop, wtask, driverVars, fsVars, histVars>>

\* A pool of n workers, its owner about to destroy it at a time of its
\* choosing while another thread submits closures.
PoolInit ==
  /\ \E n \in 1 .. MaxWorkers :
       /\ wpc = [w \in 1 .. n |-> "ready"]
       /\ wtask = [w \in 1 .. n |-> 0]
  /\ stop = FALSE
  /\ tasks = <<>>
  /\ pc = "dtorStop"
  /\ mode = "alpha"
  /\ dir = [path |-> <<47, 100>>, kind |-> "dir"]
  /\ kwInput = <<>>
  /\ files = <<>>
  /\ keywords = <<>>
  /\ letter = 65
  /\ fi = 1
  /\ ki = 1
  /\ pend = [file |-> 0, dest |-> <<>>]
  /\ join = 1
  /\ top = {}
  /\ dirs = {}
  /\ moved = {}
  /\ status = <<>>
  /\ enq = <<>>
  /\ runs = <<>>
  /\ fin = <<>>
  /\ reports = <<>>
  /\ ensured = {}
  /\ failed = {}
  /\ created = {}
  /\ sub = "ready"

PoolNext ==
  \/ SubmitPush
  \/ SubmitNotify
  \/ DtorStop
  \/ DtorNotify
  \/ DtorJoin
  \/ \E w \in Workers : WorkerBlock(w)
  \/ \E w \in Workers : WorkerSpurious(w)
  \/ \E w \in Workers : WorkerExit(w)
  \/ \E w \in Workers : WorkerTake(w)
  \/ \E w \in Workers : WorkerRun(w)

PoolSpec == PoolInit /\ [][PoolNext]_vars

\* What worker w does when the scheduler runs it; a spurious wakeup is not
\* something a thread can count on.
WorkerStep(w) ==
  /\ w \in Workers
  /\ \/ WorkerBlock(w)
     \/ WorkerExit(w)
     \/ WorkerTake(w)
     \/ WorkerRun(w)

\* Every thread that can go on is scheduled again: each worker, the thread
\* inside enqueue, the thread inside the destructor. Whether and when the
\* owner destroys the pool, and whether the client submits, is theirs to choose.
PoolFairness ==
  /\ \A w \in 1 .. MaxWorkers : WF_vars(WorkerStep(w))
  /\ WF_vars(SubmitNotify)
  /\ WF_vars(DtorNotify)
  /\ WF_vars(DtorJoin)

FairPoolSpec == PoolSpec /\ PoolFairness

\* ------------------------------------------------ FileOrganizer, GUI thread

Show(msg) == status' = Append(status, msg)

\* FileOrganizer::createDirectory (lines 106-116): what it can return and
\* leave behind. An existing path is taken as it is; create_directory either
\* makes the folder or throws, and the catch returns false.
createDirectory(folder) ==
  IF Exists(folder)
  THEN { [ok |-> TRUE, dirs |-> dirs] }
  ELSE { [ok |-> TRUE, dirs |-> dirs \cup {folder}],
         [ok |-> FALSE, dirs |-> dirs] }

\* The call createDirectory(folder) made by the GUI thread, with result r.
CreateDirectoryCall(folder, r) ==
  /\ r \in createDirectory(folder)
  /\ dirs' = r.dirs
  /\ ensured' = IF r.ok THEN ensured \cup {folder} ELSE ensured
  /\ failed' = IF r.ok THEN failed ELSE failed \cup {folder}
  /\ created' = created \cup (r.dirs \ dirs)
  /\ IF r.ok THEN status' = status ELSE Show("Error creating directory")

\* The callbacks' own checks (lines 300, 313, 326).
CallbackRejects ==
  \/ dir.path = <<>>
  \/ mode \in {"keyword", "content"} /\ kwInput = <<>>

CallbackWarning ==
  CASE mode = "alpha" -> "Please, enter the directory."
    [] mode = "keyword" -> "Please, enter the directory and keyword."
    [] mode = "content" -> "Please, enter the directory and keywords."

\* organizeAlphabeticallyCallback / organizeByKeywordCallback /
\* organizeByContentCallback up to the call of organize* (lines 297-341):
\* an empty field is refused; otherwise the keywords are split and the pool
\* is built.
Callback ==
  /\ pc = "idle"
  /\ IF CallbackRejects
     THEN /\ Show(CallbackWarning)
          /\ pc' = "returned"
          /\ UNCHANGED <<poolVars, keywords>>
     ELSE /\ keywords' = CASE mode = "content" -> Split(kwInput)
                           [] mode = "keyword" -> <<kwInput>>
                           [] mode = "alpha" -> <<>>
          /\ Construct(MAX_THREADS)
          /\ pc' = "organize"
          /\ status' = status
  /\ UNCHANGED <<inputVars, files, loopVars, join, fsVars, enq, runs, fin,
                 reports, dirHist, sub>>

\* The first test of organize* (lines 131, 182, 229).
InvalidInput ==
  \/ dir.path = <<>>
  \/ dir.kind = "missing"
  \/ mode = "keyword" /\ keywords[1] = <<>>

InvalidMessage ==
  IF mode = "keyword" THEN "Invalid directory or keyword." ELSE "Invalid directory."

CatchMessage ==
  CASE mode = "alpha" -> "Error organizing files alphabetically."
    [] mode = "keyword" -> "Error organizing files by keyword."
    [] mode = "content" -> "Error organizing files by content."

SuccessMessage ==
  CASE mode = "alpha" -> "Files organized alphabetically!"
    [] mode = "keyword" -> "Files with keyword moved successfully!"
    [] mode = "content" -> "Files organized based on content!"

FirstLoop ==
  CASE mode = "alpha" -> "alphaDir"
    [] mode = "keyword" -> "kwDir"
    [] mode = "content" -> "contentFiles"

\* Faulty variant of NoFilesFound: the test is left out.
NoFilesFoundNever(S) == FALSE

\* files.empty() (lines 144, 195, 242)
NoFilesFound(S) == S = {}

\* organize*, from its entry through the scan and the sort (lines 131-152,
\* 182-198 with 205-208, 229-250). The sort reads only the files' sizes and
\* paths, which nothing changes before the first enqueue.
Organize ==
  /\ pc = "organize"
  /\ \/ /\ InvalidInput
        /\ Show(InvalidMessage)
        /\ pc' = "dtorStop"
        /\ files' = files
     \/ /\ ~InvalidInput
        /\ dir.kind = "file"
        /\ Show(CatchMessage)
        /\ pc' = "dtorStop"
        /\ files' = files
     \/ /\ ~InvalidInput
        /\ dir.kind = "dir"
        /\ NoFilesFound(top)
        /\ Show("No files found.")
        /\ pc' = "dtorStop"
        /\ files' = files
     \/ /\ ~InvalidInput
        /\ dir.kind = "dir"
        /\ ~NoFilesFound(top)
        /\ files' \in SortedOrders(top)
        /\ pc' = FirstLoop
        /\ status' = status
  /\ letter' = 65
  /\ fi' = 1
  /\ ki' = 1
  /\ UNCHANGED <<poolVars, inputVars, keywords, pend, join, fsVars, enq, runs,
                 fin, reports, dirHist, sub>>

\* Where a range-for with a test stops next: the least index of S, 0 when
\* S is empty.
NextIndex(S) == IF S = {} THEN 0 ELSE Min(S)

\* ---- organizeAlphabetically

\* The last letter of the loop of line 155.
LastLetter == 65 + NumLetters - 1

\* Faulty variant of AlphaAfterCreate: a failed createDirectory does not skip the letter.
AlphaAfterCreateNoSkip(ok) == [pc |-> "alphaFiles", letter |-> letter]

\* lines 157-159: a letter whose folder could not be created is skipped.
AlphaAfterCreate(ok) ==
  IF ok
  THEN [pc |-> "alphaFiles", letter |-> letter]
  ELSE [pc |-> "alphaDir", letter |-> letter + 1]

\* lines 155-159, one round of the letter loop up to the inner loop.
AlphaDir ==
  /\ pc = "alphaDir"
  /\ letter <= LastLetter
  /\ \E r \in createDirectory(<<letter>>) :
       /\ CreateDirectoryCall(<<letter>>, r)
       /\ pc' = AlphaAfterCreate(r.ok).pc
       /\ letter' = AlphaAfterCreate(r.ok).letter
  /\ fi' = 1
  /\ UNCHANGED <<poolVars, inputVars, files, keywords, ki, pend, join, top,
                 moved, enq, runs, fin, reports, sub>>

\* lines 163-164
AlphaMatches(i) == toupper(FilePool[files[i]].name[1]) = letter

\* lines 162-171: on to the next file of this letter, or to the next letter.
AlphaFiles ==
  /\ pc = "alphaFiles"
  /\ LET m == NextIndex({ i \in fi .. Len(files) : AlphaMatches(i) })
     IN IF m = 0
        THEN /\ letter' = letter + 1
             /\ pc' = "alphaDir"
             /\ UNCHANGED <<fi, pend>>
        ELSE /\ pend' = [file |-> files[m], dest |-> <<letter>>]
             /\ fi' = m + 1
             /\ pc' = "push"
             /\ letter' = letter
  /\ UNCHANGED <<poolVars, inputVars, files, keywords, ki, join, fsVars,
                 histVars, sub>>

\* line 155, the loop's end
AlphaEnd ==
  /\ pc = "alphaDir"
  /\ letter > LastLetter
  /\ pc' = "finish"
  /\ UNCHANGED <<poolVars, inputVars, files, keywords, loopVars, join, fsVars,
                 histVars, sub>>

\* ---- organizeByKeyword

\* lines 200-203: without the keyword's folder the run returns.
KwDir ==
  /\ pc = "kwDir"
  /\ \E r \in createDirectory(keywords[1]) :
       /\ CreateDirectoryCall(keywords[1], r)
       /\ pc' = IF r.ok THEN "kwFiles" ELSE "dtorStop"
  /\ UNCHANGED <<poolVars, inputVars, files, keywords, loopVars, join, top,
                 moved, enq, runs, fin, reports, sub>>

\* line 212
KwMatches(i) == Find(FilePool[files[i]].name, keywords[1])

\* lines 211-219
KwFiles ==
  /\ pc = "kwFiles"
  /\ LET m == NextIndex({ i \in fi .. Len(files) : KwMatches(i) })
     IN IF m = 0
        THEN /\ pc' = "finish"
             /\ UNCHANGED <<fi, pend>>
        ELSE /\ pend' = [file |-> files[m], dest |-> keywords[1]]
             /\ fi' = m + 1
             /\ pc' = "push"
  /\ UNCHANGED <<poolVars, inputVars, files, keywords, letter, ki, join,
                 fsVars, histVars, sub>>

\* ---- organizeByContent

\* Faulty variant of ContentMatches: every keyword counts as found.
ContentMatchesAlways(k) == TRUE

\* line 257, for the file at fi
ContentMatches(k) == Find(getFileContent(files[fi]), keywords[k])

\* lines 252-257: the next keyword found in the file's content, or on to the
\* next file; line 252, the loop's end.
ContentFiles ==
  /\ pc = "contentFiles"
  /\ IF fi > Len(files)
     THEN /\ pc' = "finish"
          /\ UNCHANGED <<fi, ki>>
     ELSE LET k == NextIndex({ k \in ki .. Len(keywords) : ContentMatches(k) })
          IN IF k = 0
             THEN /\ fi' = fi + 1
                  /\ ki' = 1
                  /\ pc' = pc
             ELSE /\ ki' = k
                  /\ fi' = fi
                  /\ pc' = "contentDir"
  /\ UNCHANGED <<poolVars, inputVars, files, keywords, letter, pend, join,
                 fsVars, histVars, sub>>

\* lines 259-261: `continue` goes on with the next keyword for the same file.
ContentAfterCreateFail == [pc |-> "contentFiles", fi |-> fi, ki |-> ki + 1]

\* lines 258-263: the keyword's folder, then the closure for the file.
ContentDir ==
  /\ pc = "contentDir"
  /\ \E r \in createDirectory(keywords[ki]) :
       /\ CreateDirectoryCall(keywords[ki], r)
       /\ IF r.ok
          THEN /\ pend' = [file |-> files[fi], dest |-> keywords[ki]]
               /\ pc' = "push"
               /\ UNCHANGED <<fi, ki>>
          ELSE /\ pc' = ContentAfterCreateFail.pc
               /\ fi' = ContentAfterCreateFail.fi
               /\ ki' = ContentAfterCreateFail.ki
               /\ pend' = pend
  /\ UNCHANGED <<poolVars, inputVars, files, keywords, letter, join, top,
                 moved, enq, runs, fin, reports, sub>>

\* Faulty variant of ContentAfterEnqueue: no break, the keyword loop goes on.
ContentAfterEnqueueNoBreak == [pc |-> "contentFiles", fi |-> fi, ki |-> ki + 1]

\* line 268: `break` leaves the keyword loop, the next file follows.
ContentAfterEnqueue == [pc |-> "contentFiles", fi |-> fi + 1, ki |-> 1]

\* ---- pool.enqueue as called by organize*

\* ThreadPool::enqueue, lines 82-85, on the GUI thread
Push ==
  /\ pc = "push"
  /\ EnqueuePush(pend)
  /\ pc' = "notify"
  /\ UNCHANGED <<stop, wpc, wtask, inputVars, files, keywords, loopVars, join,
                 fsVars, status, dirHist, sub>>

\* ThreadPool::enqueue, line 86, and back into the loop that called it
Notify ==
  /\ pc = "notify"
  /\ NotifyOne
  /\ IF mode = "content"
     THEN /\ pc' = ContentAfterEnqueue.pc
          /\ fi' = ContentAfterEnqueue.fi
          /\ ki' = ContentAfterEnqueue.ki
     ELSE /\ pc' = IF mode = "alpha" THEN "alphaFiles" ELSE "kwFiles"
          /\ UNCHANGED <<fi, ki>>
  /\ UNCHANGED <<tasks, stop, wtask, inputVars, files, keywords, letter, pend,
                 join, fsVars, histVars, sub>>

\* lines 174, 221, 273: the closing message, then the return to the callback,
\* whose end destroys the pool.
Finish ==
  /\ pc = "finish"
  /\ Show(SuccessMessage)
  /\ pc' = "dtorStop"
  /\ UNCHANGED <<poolVars, inputVars, files, keywords, loopVars, join, fsVars,
                 enq, runs, fin, reports, dirHist, sub>>

\* ------------------------------------------------------- the whole program

Modes == {"alpha", "keyword", "content"}

\* A click on "Organize" in one of the three windows: the fields as typed
\* (the alphabetical window has no keyword field, lines 350-353), the
\* directory with at most MaxFiles regular files, no pool yet.
Init ==
  /\ mode \in Modes
  /\ dir \in DirInputs
  /\ kwInput \in IF mode = "alpha" THEN {<<>>} ELSE KeywordInputs
  /\ top \in IF dir.kind = "dir"
             THEN { S \in SUBSET FileIds : Cardinality(S) <= MaxFiles }
             ELSE { {} }
  /\ dirs \in IF dir.kind = "dir" THEN DirsInputs ELSE { {} }
  /\ moved = {}
  /\ pc = "idle"
  /\ tasks = <<>>
  /\ stop = FALSE
  /\ wpc = <<>>
  /\ wtask = <<>>
  /\ files = <<>>
  /\ keywords = <<>>
  /\ letter = 65
  /\ fi = 1
  /\ ki = 1
  /\ pend = [file |-> 0, dest |-> <<>>]
  /\ join = 1
  /\ status = <<>>
  /\ enq = <<>>
  /\ runs = <<>>
  /\ fin = <<>>
  /\ reports = <<>>
  /\ ensured = {}
  /\ failed = {}
  /\ created = {}
  /\ sub = "off"

Next ==
  \/ Callback
  \/ Organize
  \/ AlphaDir
  \/ AlphaFiles
  \/ AlphaEnd
  \/ KwDir
  \/ KwFiles
  \/ ContentFiles
  \/ ContentDir
  \/ Push
  \/ Notify
  \/ Finish
  \/ DtorStop
  \/ DtorNotify
  \/ DtorJoin
  \/ \E w \in Workers : WorkerBlock(w)
  \/ \E w \in Workers : WorkerSpurious(w)
  \/ \E w \in Workers : WorkerExit(w)
  \/ \E w \in Workers : WorkerTake(w)
  \/ \E w \in Workers : WorkerRun(w)

Spec == Init /\ [][Next]_vars

\* ------------------------------------------------------------- the claims

Jobs == DOMAIN enq

\* The job ran to its end, once.
Finished(j) == runs[j] = 1 /\ fin[j] = 1

\* The job sits in the queue or in a worker's hands.
Outstanding(j) ==
  \/ \E i \in DOMAIN tasks : tasks[i] = j
  \/ \E w \in Workers : wtask[w] = j

\* C1: a job that enqueue accepted before the destructor set stop is run
\* exactly once, by one worker: no job is ever started twice or held by two
\* workers, and when the destructor has returned every such job has run.
C1_ExactlyOnce ==
  /\ \A j \in Jobs : runs[j] <= 1 /\ fin[j] <= runs[j]
  /\ \A v, w \in Workers : (v # w /\ wtask[v] # 0) => wtask[v] # wtask[w]
  /\ pc = "returned" => \A j \in Jobs : ~enq[j].late => Finished(j)

\* Several workers, several jobs accepted before stop, the destructor back.
C1_Witness ==
  /\ pc = "returned"
  /\ Len(wpc) >= 2
  /\ \E j, k \in Jobs :
       j # k /\ ~enq[j].late /\ ~enq[k].late /\ Finished(j) /\ Finished(k)

\* C2: once the destructor has returned, the queue is empty, every worker
\* has terminated and no worker holds or runs a job, then and ever after.
C2_AfterShutdown ==
  (pc = "returned" /\ Workers # {}) =>
    /\ tasks = <<>>
    /\ \A w \in Workers : wpc[w] = "exited" /\ wtask[w] = 0

\* A run that enqueued jobs has ended: the destructor joined all the workers.
C2_Witness ==
  /\ pc = "returned"
  /\ Len(wpc) = MAX_THREADS
  /\ Len(enq) >= 2
  /\ \A j \in Jobs : Finished(j)

\* C3 (as claimed): enqueue called once stop is set is refused, so no closure
\* is accepted after stop, and so none is accepted and then never run.
C3_RejectAfterStop ==
  /\ \A j \in Jobs : ~enq[j].late
  /\ pc = "returned" => \A j \in Jobs : Finished(j)

\* C4: enqueue is only ever called with, and the queue and the workers only
\* ever hold, a job whose folder createDirectory had returned true for before.
C4_DirBeforeJob ==
  /\ pc \in {"push", "notify"} => pend.dest \in ensured
  /\ \A j \in Jobs : enq[j].dest \in ensured

\* A job is out while another folder's creation had failed in this run.
C4_Witness ==
  /\ failed # {}
  /\ \E j \in Jobs : Outstanding(j) /\ enq[j].dest \in ensured

\* C5: no file gets two jobs in a run, and no file ends in two folders.
C5_OneDestination ==
  /\ \A j, k \in Jobs : enq[j].file = enq[k].file => j = k
  /\ \A x, y \in moved : x[1] = y[1] => x[2] = y[2]

\* The keywords (by index) found in file f's content.
MatchingKeywords(f) ==
  { k \in DOMAIN keywords : Find(FilePool[f].text, keywords[k]) }

\* A content run is over in which a file holding two of the keywords moved.
C5_Witness ==
  /\ mode = "content"
  /\ pc = "returned"
  /\ \E x \in moved : Cardinality(MatchingKeywords(x[1])) >= 2

\* C6 (as claimed): in content mode a job's folder is the first keyword of
\* the list found in the file's content.
C6_FirstMatchWins ==
  mode = "content" =>
    \A j \in Jobs :
      /\ MatchingKeywords(enq[j].file) # {}
      /\ enq[j].dest = keywords[Min(MatchingKeywords(enq[j].file))]

\* The folder a scanned file classifies to, <<"none">> when to none.
Classified(f) ==
  CASE mode = "alpha" ->
         IF toupper(FilePool[f].name[1]) \in 65 .. LastLetter
         THEN <<"to", <<toupper(FilePool[f].name[1])>> >>
         ELSE <<"none">>
    [] mode = "keyword" ->
         IF Find(FilePool[f].name, keywords[1])
         THEN <<"to", keywords[1]>>
         ELSE <<"none">>
    [] mode = "content" ->
         IF MatchingKeywords(f) # {}
         THEN <<"to", keywords[Min(MatchingKeywords(f))]>>
         ELSE <<"none">>

ScannedFiles == { files[i] : i \in DOMAIN files }

\* C7 (as claimed): when createDirectory failed for a folder, the run has no
\* job for that folder and none for a file classified to it; and the run
\* goes on: once it is over, every file classified to a folder that was
\* created has its job.
C7_FailedFolderSkipped ==
  /\ \A d \in failed :
       /\ \A j \in Jobs : enq[j].dest # d
       /\ \A j \in Jobs : Classified(enq[j].file) # <<"to", d>>
  /\ (pc = "returned" /\ failed # {}) =>
       \A f \in ScannedFiles :
         (Classified(f) # <<"none">> /\ Classified(f)[2] \in ensured \ failed)
           => \E j \in Jobs : enq[j].file = f

\* C8 (as claimed): the outcome of a job is shown once: never more than
\* once, and by the end of the run once for every job.
C8_ReportedOnce ==
  /\ \A j \in Jobs : Len(reports[j]) <= 1
  /\ pc = "returned" => \A j \in Jobs : Len(reports[j]) = 1

\* C9 (as claimed): the closing message of a run is shown only when every
\* job of the run has run to its end.
C9_StatusAfterJobs ==
  (\E i \in DOMAIN status : status[i] = SuccessMessage) =>
    \A j \in Jobs : Finished(j)

\* The inputs the claim names: no directory, a directory that is not there,
\* an empty keyword (keyword mode), an empty keyword in the list or no list
\* (content mode).
InputError ==
  \/ dir.path = <<>>
  \/ dir.kind = "missing"
  \/ mode = "keyword" /\ kwInput = <<>>
  \/ mode = "content" /\ kwInput = <<>>
  \/ mode = "content" /\ \E k \in DOMAIN Split(kwInput) : Split(kwInput)[k] = <<>>

InputErrorMessages ==
  { "Please, enter the directory.",
    "Please, enter the directory and keyword.",
    "Please, enter the directory and keywords.",
    "Invalid directory.",
    "Invalid directory or keyword." }

\* C10 (as claimed): on such an input nothing is created, enqueued or moved,
\* and the run ends with the input error shown.
C10_InputErrorNoEffects ==
  InputError =>
    /\ created = {}
    /\ enq = <<>>
    /\ moved = {}
    /\ pc = "returned" => \E i \in DOMAIN status : status[i] \in InputErrorMessages

\* The GUI thread is past the enqueue loops of organize*.
LoopsDone == pc \in {"finish", "dtorStop", "dtorNotify", "dtorJoin", "returned"}

\* C11: when the scan of an existing directory finds no regular file, the
\* run shows "No files found." and nothing else, makes no folder, enqueues
\* no job and moves nothing; the folders already there stay as they are.
C11_NoFilesNoEffects ==
  (dir.kind = "dir" /\ ~CallbackRejects /\ files = <<>>
     /\ pc \notin {"idle", "organize"}) =>
    /\ status = <<"No files found.">>
    /\ created = {}
    /\ ensured = {}
    /\ enq = <<>>
    /\ moved = {}
    /\ dirs \in DirsInputs

\* An alphabetical run over a directory that holds only a subfolder is over.
C11_Witness ==
  /\ mode = "alpha"
  /\ dir.kind = "dir"
  /\ dirs # {}
  /\ pc = "returned"
  /\ status = <<"No files found.">>

\* The jobs enqueued for file f.
JobsOf(f) == { j \in Jobs : enq[j].file = f }

\* The first character of f's name, upper-cased, is a letter of the loop.
StartsWithLetter(f) ==
  /\ FilePool[f].name[1] \in (65 .. LastLetter) \cup (97 .. LastLetter + 32)

UpperFirst(f) ==
  IF FilePool[f].name[1] \in 97 .. 122
  THEN FilePool[f].name[1] - 32
  ELSE FilePool[f].name[1]

\* C12 (as claimed): after the loops of an alphabetical run every scanned
\* file that starts with a letter has exactly one job, for the folder of
\* that letter upper-cased, and every other scanned file has none.
C12_LetterJob ==
  (mode = "alpha" /\ LoopsDone /\ files # <<>>) =>
    \A f \in ScannedFiles :
      IF StartsWithLetter(f)
      THEN /\ Cardinality(JobsOf(f)) = 1
           /\ \A j \in JobsOf(f) : enq[j].dest = <<UpperFirst(f)>>
      ELSE JobsOf(f) = {}

\* C12 (amended): ... has exactly one job, for the folder of that letter
\* upper-cased, when createDirectory returned true for that folder, and no
\* job when it returned false; every other scanned file has none, and no
\* message is shown but the failed folders' and the closing one.
C12_LetterJobIfFolder ==
  (mode = "alpha" /\ LoopsDone /\ files # <<>>) =>
    /\ \A f \in ScannedFiles :
         IF StartsWithLetter(f) /\ <<UpperFirst(f)>> \in ensured
         THEN /\ Cardinality(JobsOf(f)) = 1
              /\ \A j \in JobsOf(f) : enq[j].dest = <<UpperFirst(f)>>
         ELSE JobsOf(f) = {}
    /\ \A f \in ScannedFiles :
         StartsWithLetter(f) => <<UpperFirst(f)>> \in ensured \cup failed
    /\ \A i \in DOMAIN status :
         status[i] \in {"Error creating directory", SuccessMessage}

\* An alphabetical run is over with a lower-case file in its letter's folder
\* and a file that starts with a digit left in place.
C12_Witness ==
  /\ mode = "alpha"
  /\ pc = "returned"
  /\ <<1, <<65>>>> \in moved
  /\ 3 \in top
  /\ 3 \in ScannedFiles

\* C13: a failed move stops nothing: no worker leaves its loop while stop is
\* not set, and at the end of a run in which a move failed every job has run.
C13_FailureLocalized ==
  /\ \A w \in Workers : wpc[w] = "exited" => stop
  /\ pc = "returned" => \A j \in Jobs : Finished(j)

\* A run is over in which one move failed and another file was moved.
C13_Witness ==
  /\ pc = "returned"
  /\ \E j, k \in Jobs :
       /\ reports[j] # <<>>
       /\ reports[k] = <<>>
       /\ \E x \in moved : x[1] = enq[k].file

\* The folders the classified files refer to.
ClassifiedFolders ==
  { Classified(f)[2] : f \in { g \in ScannedFiles : Classified(g) # <<"none">> } }

\* C14 (as claimed): the folders a run makes are folders its classified
\* files refer to, and by the end of the run createDirectory has been called
\* for each folder they refer to.
C14_OnlyClassifiedFolders ==
  /\ files # <<>> => created \subseteq ClassifiedFolders
  /\ (pc = "returned" /\ files # <<>>) =>
       ClassifiedFolders \subseteq (ensured \cup failed)

\* The keywords found in some scanned file's content.
MatchedKeywords ==
  { keywords[k] : k \in UNION { MatchingKeywords(f) : f \in ScannedFiles } }

\* C14 (amended): in content mode createDirectory is only ever called for a
\* keyword found in a scanned file's content; an alphabetical run that
\* scanned files calls it for every letter of the loop and a keyword run for
\* the keyword, whether or not a file classifies there.
C14_FoldersPerMode ==
  /\ mode = "content" => (ensured \cup failed \cup created) \subseteq MatchedKeywords
  /\ (mode = "alpha" /\ LoopsDone /\ files # <<>>) =>
       ensured \cup failed = { <<c>> : c \in 65 .. LastLetter }
  /\ (mode = "keyword" /\ pc \in {"kwFiles", "push", "notify", "finish"}) =>
       ensured = {keywords[1]}

\* An alphabetical run made a folder no scanned file classifies to; a
\* content run made a folder.
C14_Witness ==
  \/ /\ mode = "alpha"
     /\ pc = "returned"
     /\ \E d \in created : d \notin ClassifiedFolders
  \/ /\ mode = "content"
     /\ pc = "returned"
     /\ created # {}

\* C15 (as claimed): of two jobs of a run, the one whose file has the
\* strictly smaller score was enqueued first.
C15_HeuristicOrder ==
  \A j, k \in Jobs :
    (enq[j].file # 0 /\ enq[k].file # 0 /\ Score(enq[j].file) < Score(enq[k].file))
      => j < k

\* C16: a worker returns only with stop set and the queue empty, and a
\* closure in the queue of a pool that has a live worker is taken.
C16_NoLostWakeup ==
  /\ [][\A w \in Workers :
          (wpc[w] # "exited" /\ wpc'[w] = "exited") => (stop /\ tasks = <<>>)]_vars
  /\ \A j \in 1 .. MaxJobs :
       ((\E i \in DOMAIN tasks : tasks[i] = j) /\ (\E w \in Workers : wpc[w] # "exited"))
         ~> (j \in Jobs /\ runs[j] >= 1)

\* A closure was pushed while every worker was blocked in wait, before the
\* notify.
C16_Witness ==
  /\ tasks # <<>>
  /\ sub = "notify"
  /\ ~stop
  /\ \A w \in Workers : wpc[w] = "waiting"

\* C17: once stop is set the destructor returns, with every worker gone and
\* every closure that was accepted before stop run.
C17_ShutdownTerminates ==
  stop ~> /\ pc = "returned"
          /\ \A w \in Workers : wpc[w] = "exited"
          /\ \A j \in Jobs : ~enq[j].late => Finished(j)

\* stop was set with closures queued, a worker blocked in wait and another
\* running a closure.
C17_Witness ==
  /\ pc = "dtorNotify"
  /\ Len(tasks) >= 1
  /\ \E w \in Workers : wpc[w] = "waiting"
  /\ \E w \in Workers : wpc[w] = "run"

\* The closures being executed: started and not yet at their end.
Executing == { j \in Jobs : runs[j] > fin[j] }

\* C18: no more closures execute at once than the pool has workers, and the
\* pool has the workers it was built with, whatever has been enqueued.
C18_BoundedConcurrency ==
  /\ [](Cardinality(Executing) <= Len(wpc))
  /\ [][Len(wpc') = Len(wpc)]_vars

\* More closures accepted than the pool has workers, all workers busy.
C18_Witness ==
  /\ Len(enq) > Len(wpc)
  /\ Len(wpc) >= 2
  /\ Cardinality(Executing) = Len(wpc)
  /\ tasks # <<>>

\* C19 (as claimed): a file with a favoured extension scores lower than a
\* file without one.
C19_CheapAlwaysLower ==
  \A f, g \in top :
    (HasCheapExtension(f) /\ ~HasCheapExtension(g)) => evaluate(f) < evaluate(g)

\* C19 (amended): a file with a favoured extension scores its size plus its
\* path length less 1000, a file without one its size plus its path length;
\* so the first scores lower exactly when its size plus path length is less
\* than the other's plus 1000 (sizes below 2^31).
C19_CheapLowerWithin1000 ==
  /\ \A f \in top :
       evaluate(f) =
         IF Extension(FilePool[f].name) \in CheapExtensions
         THEN FileSize(f) + PathLength(f) - 1000
         ELSE FileSize(f) + PathLength(f)
  /\ \A f, g \in top :
       (Extension(FilePool[f].name) \in CheapExtensions
          /\ Extension(FilePool[g].name) \notin CheapExtensions) =>
         (evaluate(f) < evaluate(g)
            <=> FileSize(f) + PathLength(f) < FileSize(g) + PathLength(g) + 1000)

\* A directory with a 2000-byte .png beside a small file without extension,
\* sorted: the small file first.
C19_Witness ==
  /\ files = <<2, 5>>
  /\ 2 \in top
  /\ 5 \in top

\* The path a job renames from, and the path it renames to.
SourcePath(j) == <<dir.path, FilePool[enq[j].file].name>>
DestPath(j) == <<dir.path, enq[j].dest, FilePool[enq[j].file].name>>

\* C20: two jobs of a run never have the same source path, nor the same
\* destination path; so neither do two jobs that workers run at once.
C20_DistinctPaths ==
  \A j, k \in Jobs :
    j # k => (SourcePath(j) # SourcePath(k) /\ DestPath(j) # DestPath(k))

\* Two workers at once rename two files into the same folder.
C20_Witness ==
  \E v, w \in Workers :
    /\ v # w
    /\ wpc[v] = "run"
    /\ wpc[w] = "run"
    /\ enq[wtask[v]].dest = enq[wtask[w]].dest

=============================================================================
